---- MODULE Spec2Model ----
(***************************************************************************)
(* Model of controllers/auth.js: the four authentication entry points      *)
(* (authChallenge, jwtCheck, googleOauthCallback, azureOauthCallback), the *)
(* private authenticateUser and handleError.                               *)
(*                                                                         *)
(* One request is handled at a time (requests share no state).  The       *)
(* awaited remote calls (axios.post, DynamoDB.users.getUser) are suspend   *)
(* points: the entry action runs the code up to the await, a continuation  *)
(* action runs the code after it.                                          *)
(***************************************************************************)
EXTENDS Integers, Sequences, FiniteSets

\* ------------------------------------------------------------------ bounds
MaxLen == 2     \* longest e-mail / user name, in characters
MaxTime == 2    \* latest time (seconds) at which a request arrives

\* ------------------------------------------------------- program constants
\* A validity of one hour instead of fourteen days
OneHourSeconds == 60 * 60

JWT_VALID_SECONDS == 14 * 24 * 60 * 60

JWT_SECRET == "process.env.JWT_SECRET"

GOOGLE_TOKEN_URL == "https://accounts.google.com/o/oauth2/token"

AZURE_TOKEN_URL == "https://login.microsoftonline.com/common/oauth2/token"

\* ------------------------------------------------------ JavaScript values
\* A value is a record tagged with its kind in field t.  A string made of
\* characters carries them in v; a string literal of the program carries its
\* text in lit; a session token is a string that carries its content in jwt.
Undef == [t |-> "undefined"]

Null == [t |-> "null"]

NumV == [t |-> "number"]

Str(s) == [t |-> "string", v |-> s]

Lit(s) == [t |-> "string", lit |-> s]

\* typeof x
Typeof(x) == IF x.t = "null" THEN "object" ELSE x.t

\* x.f for an x that is neither undefined nor null
Get(x, f) == IF f \in DOMAIN x THEN x[f] ELSE Undef

\* x can be dereferenced (x.f does not throw)
HasProps(x) == x.t \notin {"undefined", "null"}

\* JavaScript truthiness
Truthy(x) ==
  /\ x.t \notin {"undefined", "null"}
  /\ ~(x.t = "string" /\ "v" \in DOMAIN x /\ x.v = <<>>)

\* The TypeError raised by a property access or a call on undefined / null
TypeErr == [t |-> "object", name |-> "TypeError"]

\* ----------------------------------------------------------------- strings
Chars == {"A", "a", "b"}

LowerChar(c) == IF c = "A" THEN "a" ELSE c

\* String.prototype.toLowerCase
ToLowerCase(s) == [i \in DOMAIN s |-> LowerChar(s[i])]

SeqsUpTo(n) == UNION {[1..k -> Chars] : k \in 1..n}

Emails == {Str(s) : s \in SeqsUpTo(MaxLen)}

Passwords == {Str(<<"b">>)}

CustomerIds == {Undef, Str(<<"A">>)}

\* ------------------------------------------------------------- user store
\* Records the store can return: they expose email and customer_id.
Users ==
  { [t |-> "object", email |-> Str(<<"a">>), customer_id |-> Str(<<"b">>)],
    [t |-> "object", email |-> Str(<<"a", "b">>), customer_id |-> Str(<<"A">>)] }

\* What a failed lookup rejects with
StoreErrors ==
  { Lit("user not found"), [t |-> "object", name |-> "StoreUnavailable"] }

\* ------------------------------------------------------------------ tokens
\* jwt.sign(payload, secret, {expiresIn}) at time iat
Sign(payload, secret, opts, iat) ==
  [t |-> "string",
   jwt |-> [data |-> payload.data, secret |-> secret,
            iat |-> iat, exp |-> iat + opts.expiresIn]]

\* The times at which a request can arrive
Times == 1..MaxTime

\* Session tokens issued by an earlier login (at time 0)
PriorTokens ==
  { Sign([data |-> [cId |-> c, uEmail |-> u.email, u_cId |-> u.customer_id]],
         JWT_SECRET, [expiresIn |-> JWT_VALID_SECONDS], 0)
      : c \in CustomerIds, u \in Users }

\* Identity tokens of the providers; claims is the payload
IdToken(claims) == [t |-> "string", idt |-> claims]

\* jwt.decode(token): the payload, or null when token is not a well-formed JWT
Decode(token) ==
  IF token.t = "string" /\ "idt" \in DOMAIN token THEN token.idt ELSE Null

\* ---------------------------------------------------------------- requests
\* request.normalizedHeaders: the session token header may be absent
Headers == {[t |-> "object", jwt |-> j] : j \in {Undef} \cup PriorTokens}

ChallengeBodies ==
  {Undef, Null, Str(<<"a">>)} \cup
  { [t |-> "object", username |-> u, password |-> p]
      : u \in {Undef, NumV} \cup Emails, p \in {Undef, NumV} \cup Passwords }

AuthChallengeRequests ==
  {Undef} \cup
  { [t |-> "object", body |-> b, normalizedHeaders |-> h]
      : b \in ChallengeBodies, h \in Headers }

\* The payload the JWT middleware attaches is the payload of the header token;
\* it may be absent, or lack the uEmail claim.
JwtCheckPayload(j, e) ==
  [t |-> "object",
   data |-> [t |-> "object", cId |-> j.jwt.data.cId, uEmail |-> e]]

JwtCheckRequests ==
  UNION { { [t |-> "object", jwtPayload |-> p,
             normalizedHeaders |-> [t |-> "object", jwt |-> j]]
              : p \in {Undef, JwtCheckPayload(j, Undef),
                       JwtCheckPayload(j, j.jwt.data.uEmail)} }
          : j \in PriorTokens }

OauthBodies ==
  {Undef, Null} \cup
  { [t |-> "object", code |-> c, redirect_url |-> r]
      : c \in {Undef, NumV, Str(<<"a">>)}, r \in {Undef, NumV, Str(<<"b">>)} }

OauthRequests == {Undef} \cup {[t |-> "object", body |-> b] : b \in OauthBodies}

\* ------------------------------------------------- token endpoint outcomes
\* A resolved axios.post: response.data.id_token absent, malformed, or a
\* well-formed identity token with or without the e-mail claims.
OauthClaims ==
  { [t |-> "object", email |-> e, upn |-> u]
      : e \in {Undef} \cup Emails, u \in {Undef, Str(<<"A", "b">>)} }

OauthResponses ==
  { [t |-> "object", data |-> [t |-> "object", id_token |-> k]]
      : k \in {Undef, Str(<<"b">>)} \cup {IdToken(c) : c \in OauthClaims} }

\* A rejected axios.post: an HTTP error carrying the provider's payload, with
\* or without error_description, or a failure without a response.
OauthErrors ==
  { [t |-> "object", name |-> "AxiosError", response |-> Undef] } \cup
  { [t |-> "object", name |-> "AxiosError",
     response |-> [t |-> "object",
                   data |-> [t |-> "object", error |-> Lit("invalid_grant"),
                             error_description |-> d]]]
      : d \in {Undef, Lit("Bad Request")} }

\* error.toString()
ErrorToString(error) == Lit("Error: Request failed")

\* ------------------------------------------------------------------- state
VARIABLES
  pc,        \* "idle", "exchange" (axios.post awaited), "lookup" (getUser awaited), "done"
  entry,     \* the entry point handling the current request
  request,   \* the request object it was called with
  options,   \* authenticateOptions handed to authenticateUser
  outcome,   \* how the entry point completed
  log,       \* RelayLog.error calls of the current request
  remote,    \* remote calls of the current request: issued / ok / failed events
  signed,    \* jwt.sign calls of the current request
  now        \* time at which the current request is handled

vars == <<pc, entry, request, options, outcome, log, remote, signed, now>>

Pending == [kind |-> "pending"]

Returned(v) == [kind |-> "returned", value |-> v]

\* A synchronous throw of the entry point
Thrown(e) == [kind |-> "thrown", error |-> e]

\* An exception inside an async entry point: the promise is rejected
Rejected(e) == [kind |-> "rejected", error |-> e]

Event(call, phase, args) == [call |-> call, phase |-> phase, args |-> args]

Init ==
  /\ pc = "idle"
  /\ entry = "none"
  /\ request = Undef
  /\ options = Undef
  /\ outcome = Pending
  /\ log = <<>>
  /\ remote = <<>>
  /\ signed = <<>>
  /\ now = 0

\* ------------------------------------------------------------- handleError
\* The value handleError returns
handleErrorValue(error, type) ==
  IF Truthy(error) /\ Truthy(Get(error, "response"))
       /\ Truthy(Get(Get(error, "response"), "data"))
  THEN LET data == Get(Get(error, "response"), "data")
       IN [error |-> Get(data, "error"),
           message |-> IF Truthy(Get(data, "error_description"))
                       THEN Get(data, "error_description")
                       ELSE ErrorToString(error),
           type |-> type]
  ELSE [error |-> error, type |-> type]

\* handleError(error, type): logs to RelayLog.error, then returns the value
handleError(error, type) ==
  [logged |-> [tag |-> type, error |-> error],
   value |-> handleErrorValue(error, type)]

\* An entry point, or a continuation, completes the request
Finish(o, l, r) ==
  /\ pc' = "done"
  /\ outcome' = o
  /\ log' = l
  /\ remote' = r

\* return handleError(error, type)
Fail(error, type, r) ==
  LET h == handleError(error, type)
  IN Finish(Returned(h.value), <<h.logged>>, r)

\* The HTTP layer dispatches a request to an entry point
Begin(e, req, t) ==
  /\ pc = "idle"
  /\ entry' = e
  /\ request' = req
  /\ now' = t

\* -------------------------------------------------------- authenticateUser
\* The tag of the input checks, pasted into the lookup's catch block
BadParamsTag == "bad params"

\* The stage tag of a failed lookup
AuthenticateUserTag == "authenticateUser"

\* The key handed over as typed, without toLowerCase()
LookupKeyAsTyped(userEmail) == userEmail

\* The key handed to DynamoDB.users.getUser: userEmail.toLowerCase()
LookupKey(userEmail) == Str(ToLowerCase(userEmail.v))

\* The prior token authenticateUser destructures from its options
PreviousJwt(opts) == Get(opts, "previousJwt")

\* The payload authenticateUser signs
SignPayload(customerId, user) ==
  [data |-> [cId |-> customerId, uEmail |-> Get(user, "email"),
             u_cId |-> Get(user, "customer_id")]]

\* authenticateUser up to its await: evaluates userEmail.toLowerCase() inside
\* the try block and issues the lookup; a TypeError there is caught.
\* r is the list of remote calls made so far.
AuthenticateUserCall(opts, r) ==
  LET userEmail == Get(opts, "userEmail")
      password == Get(opts, "password")
  IN /\ options' = opts
     /\ signed' = <<>>
     /\ IF Typeof(userEmail) = "string"
        THEN /\ pc' = "lookup"
             /\ outcome' = Pending
             /\ log' = <<>>
             /\ remote' = Append(r, Event("getUser", "issued",
                                          <<LookupKey(userEmail), password>>))
        ELSE Fail(TypeErr, AuthenticateUserTag, r)

\* A lookup that is issued again after it rejected
GetUserRejectedRetry ==
  /\ pc = "lookup"
  /\ Len(remote) < 6
  /\ \E error \in StoreErrors :
       remote' = remote \o <<Event("getUser", "failed", <<error>>),
                              remote[Len(remote)]>>
  /\ UNCHANGED <<pc, entry, request, options, outcome, log, signed, now>>

\* authenticateUser after the lookup rejected
GetUserRejected ==
  /\ pc = "lookup"
  /\ \E error \in StoreErrors :
       Fail(error, AuthenticateUserTag,
            Append(remote, Event("getUser", "failed", <<error>>)))
  /\ UNCHANGED <<entry, request, options, signed, now>>

\* authenticateUser after the lookup resolved: token decision and response
GetUserResolved ==
  /\ pc = "lookup"
  /\ \E user \in Users :
       LET previousJwt == PreviousJwt(options)
           customerId == Get(options, "customerId")
           redirectUrl == Get(options, "redirectUrl")
           payload == SignPayload(customerId, user)
           signOpts == [expiresIn |-> JWT_VALID_SECONDS]
           newJWT == IF Truthy(previousJwt) THEN previousJwt
                     ELSE Sign(payload, JWT_SECRET, signOpts, now)
       IN /\ signed' = IF Truthy(previousJwt) THEN signed
                       ELSE Append(signed, [payload |-> payload,
                                            secret |-> JWT_SECRET,
                                            options |-> signOpts])
          /\ Finish(Returned([jwt |-> newJWT, serial |-> customerId,
                              user |-> user, redirectUrl |-> redirectUrl]),
                    log,
                    Append(remote, Event("getUser", "ok", <<user>>)))
  /\ UNCHANGED <<entry, request, options, now>>

\* ----------------------------------------------------------- authChallenge
\* The checks of authChallenge: the message of the first failed check, or
\* "ok"; "TypeError" when reading request.normalizedHeaders.jwt throws.
AuthChallengeCheck(req) ==
  IF Typeof(req) = "undefined" THEN "request must be defined"
  ELSE LET body == Get(req, "body") IN
  IF Typeof(body) # "object" \/ ~Truthy(body) THEN "jsonBody required"
  ELSE IF Typeof(Get(body, "username")) = "undefined" THEN "username required"
  ELSE IF Typeof(Get(body, "username")) # "string" THEN "username must be a string"
  ELSE IF Typeof(Get(body, "password")) = "undefined" THEN "password required"
  ELSE IF Typeof(Get(body, "password")) # "string" THEN "password must be a string"
  ELSE IF ~HasProps(Get(req, "normalizedHeaders")) THEN "TypeError"
  ELSE "ok"

authChallenge ==
  \E req \in AuthChallengeRequests, t \in Times :
    /\ Begin("authChallenge", req, t)
    /\ LET check == AuthChallengeCheck(req) IN
       IF check = "ok"
       THEN AuthenticateUserCall(
              [userEmail |-> req.body.username,
               password |-> req.body.password,
               jwt |-> Get(req.normalizedHeaders, "jwt")], <<>>)
       ELSE /\ options' = Undef
            /\ signed' = <<>>
            /\ IF check = "TypeError"
               THEN Finish(Thrown(TypeErr), <<>>, <<>>)
               ELSE Fail(Lit(check), "bad params", <<>>)

\* ---------------------------------------------------------------- jwtCheck
jwtCheck ==
  \E req \in JwtCheckRequests, t \in Times :
    /\ Begin("jwtCheck", req, t)
    /\ IF HasProps(Get(req, "jwtPayload"))
            /\ HasProps(Get(req.jwtPayload, "data"))
            /\ HasProps(Get(req, "normalizedHeaders"))
       THEN AuthenticateUserCall(
              [userEmail |-> Get(req.jwtPayload.data, "uEmail"),
               customerId |-> Get(req.jwtPayload.data, "cId"),
               jwt |-> Get(req.normalizedHeaders, "jwt")], <<>>)
       ELSE /\ options' = Undef
            /\ signed' = <<>>
            /\ Finish(Thrown(TypeErr), <<>>, <<>>)

\* ------------------------------------------------ OAuth callbacks, shared
\* The checks of googleOauthCallback / azureOauthCallback (the same lines in
\* both): the message of the first failed check, or "ok"; "TypeError" when
\* reading request.body.code throws.
OauthCallbackCheck(req) ==
  IF Typeof(req) = "undefined" THEN "request must be defined"
  ELSE LET body == Get(req, "body") IN
  IF ~HasProps(body) THEN "TypeError"
  ELSE IF Typeof(Get(body, "code")) # "string" THEN "code must be a string"
  ELSE IF Typeof(Get(body, "redirect_url")) # "string" THEN "redirect_url must be a string"
  ELSE "ok"

\* The stage tags of the two providers
GoogleTag == "googleOauthResponse"

\* The tag of the Google callback, pasted into the Azure callback
AzureTagPasted == "googleOauthResponse"

AzureTag == "azureOauthResponse"

\* The claim each provider's callback reads the e-mail from
GoogleClaim == "email"

AzureClaim == "upn"

\* The form parameters posted to the token endpoint
GoogleParams(body) ==
  [client_id |-> "250992307284-m88p8nub2ormiak916etcu4ke3o850it.apps.googleusercontent.com",
   client_secret |-> "process.env.GOOGLE_SECRET",
   redirect_uri |-> body.redirect_url,
   grant_type |-> "authorization_code",
   code |-> body.code]

AzureParams(body) ==
  [client_id |-> "process.env.AZURE_CLIENT_ID",
   client_secret |-> "process.env.AZURE_CLIENT_SECRET",
   resource |-> "https://graph.windows.net/",
   redirect_uri |-> body.redirect_url,
   grant_type |-> "authorization_code",
   code |-> body.code]

\* An OAuth callback up to its await: the checks, then axios.post is issued
OauthCallbackCall(req, url, params) ==
  LET check == OauthCallbackCheck(req) IN
  /\ options' = Undef
  /\ signed' = <<>>
  /\ IF check = "ok"
     THEN /\ pc' = "exchange"
          /\ outcome' = Pending
          /\ log' = <<>>
          /\ remote' = <<Event("post", "issued", <<url, params>>)>>
     ELSE IF check = "TypeError"
     THEN Finish(Rejected(TypeErr), <<>>, <<>>)
     ELSE Fail(Lit(check), "bad params", <<>>)

\* An OAuth callback after axios.post rejected: the catch block
PostRejected(tag) ==
  /\ pc = "exchange"
  /\ \E error \in OauthErrors :
       Fail(error, tag, Append(remote, Event("post", "failed", <<error>>)))
  /\ UNCHANGED <<entry, request, options, signed, now>>

\* An OAuth callback after axios.post resolved: decode the identity token,
\* read the claim (a TypeError when decode returned null), authenticateUser
PostResolved(claim) ==
  /\ pc = "exchange"
  /\ \E response \in OauthResponses :
       LET decodedIdToken == Decode(Get(response.data, "id_token"))
           r == Append(remote, Event("post", "ok", <<response>>))
       IN IF HasProps(decodedIdToken)
          THEN AuthenticateUserCall([userEmail |-> Get(decodedIdToken, claim)], r)
          ELSE /\ Finish(Rejected(TypeErr), log, r)
               /\ UNCHANGED <<options, signed>>
  /\ UNCHANGED <<entry, request, now>>

\* ----------------------------------------------------- googleOauthCallback
googleOauthCallback ==
  \E req \in OauthRequests, t \in Times :
    /\ Begin("googleOauthCallback", req, t)
    /\ OauthCallbackCall(req, GOOGLE_TOKEN_URL,
                         IF OauthCallbackCheck(req) = "ok"
                         THEN GoogleParams(req.body) ELSE <<>>)

GooglePostRejected ==
  /\ entry = "googleOauthCallback"
  /\ PostRejected(GoogleTag)

GooglePostResolved ==
  /\ entry = "googleOauthCallback"
  /\ PostResolved(GoogleClaim)

\* ------------------------------------------------------ azureOauthCallback
azureOauthCallback ==
  \E req \in OauthRequests, t \in Times :
    /\ Begin("azureOauthCallback", req, t)
    /\ OauthCallbackCall(req, AZURE_TOKEN_URL,
                         IF OauthCallbackCheck(req) = "ok"
                         THEN AzureParams(req.body) ELSE <<>>)

AzurePostRejected ==
  /\ entry = "azureOauthCallback"
  /\ PostRejected(AzureTag)

AzurePostResolved ==
  /\ entry = "azureOauthCallback"
  /\ PostResolved(AzureClaim)

\* ----------------------------------------------------------- specification
Next ==
  \/ googleOauthCallback
  \/ azureOauthCallback
  \/ authChallenge
  \/ jwtCheck
  \/ GooglePostRejected
  \/ GooglePostResolved
  \/ AzurePostRejected
  \/ AzurePostResolved
  \/ GetUserRejected
  \/ GetUserResolved

Spec == Init /\ [][Next]_vars

\* =================================================================== claims
\* Reading the state of the current request
Completed == pc = "done"

IsOauthEntry == entry \in {"googleOauthCallback", "azureOauthCallback"}

\* The indices of the remote-call events of one call and phase
EventsOf(call, phase) ==
  {i \in DOMAIN remote : remote[i].call = call /\ remote[i].phase = phase}

ReturnedValue == outcome.kind = "returned"

\* A success result: an object with jwt and user fields
IsSuccess == ReturnedValue /\ {"jwt", "user"} \subseteq DOMAIN outcome.value

\* A returned error object {error, type[, message]}
IsErrorObject ==
  /\ ReturnedValue
  /\ {"error", "type"} \subseteq DOMAIN outcome.value
  /\ DOMAIN outcome.value \subseteq {"error", "type", "message"}

\* The provider tag the interface table gives each OAuth entry point
ProviderTag ==
  IF entry = "googleOauthCallback" THEN "googleOauthResponse"
  ELSE "azureOauthResponse"

\* ------------------------------------------------------------------- C1
\* C1: a jwtCheck request that carries a prior session token and whose
\* identity the store resolves returns exactly that prior token as jwt, and
\* jwt.sign is not called.
C1_RecheckReusesPriorToken ==
  (/\ entry = "jwtCheck"
   /\ Completed
   /\ EventsOf("getUser", "ok") # {})
  => /\ ReturnedValue
     /\ outcome.value.jwt = request.normalizedHeaders.jwt
     /\ signed = <<>>

\* ------------------------------------------------------------------- C2
\* The first required input field that is missing or wrong-typed, per entry
\* path, "none" when the input is well-formed.
FirstOffendingField ==
  IF entry = "jwtCheck"
  THEN IF ~HasProps(Get(request, "jwtPayload")) THEN "jwtPayload"
       ELSE IF ~HasProps(Get(request.jwtPayload, "data")) THEN "data"
       ELSE IF Typeof(Get(request.jwtPayload.data, "uEmail")) # "string" THEN "uEmail"
       ELSE "none"
  ELSE IF ~HasProps(request) THEN "request"
  ELSE IF Typeof(Get(request, "body")) # "object" \/ ~Truthy(Get(request, "body"))
       THEN "body"
  ELSE IF entry = "authChallenge"
  THEN IF Typeof(Get(request.body, "username")) # "string" THEN "username"
       ELSE IF Typeof(Get(request.body, "password")) # "string" THEN "password"
       ELSE "none"
  ELSE IF Typeof(Get(request.body, "code")) # "string" THEN "code"
       ELSE IF Typeof(Get(request.body, "redirect_url")) # "string" THEN "redirect_url"
       ELSE "none"

\* The field a bad-parameter message names
FieldNamedBy(message) ==
  IF "lit" \notin DOMAIN message THEN "none"
  ELSE IF message.lit = "request must be defined" THEN "request"
  ELSE IF message.lit = "jsonBody required" THEN "body"
  ELSE IF message.lit \in {"username required", "username must be a string"} THEN "username"
  ELSE IF message.lit \in {"password required", "password must be a string"} THEN "password"
  ELSE IF message.lit = "code must be a string" THEN "code"
  ELSE IF message.lit = "redirect_url must be a string" THEN "redirect_url"
  ELSE "none"

\* C2: on each of the four entry paths a request with a missing or
\* wrong-typed required field returns a 'bad params' error naming the first
\* offending field, and no remote call is made.
C2_InvalidInputIsBadParams ==
  (entry # "none" /\ FirstOffendingField # "none")
  => /\ Completed
     /\ ReturnedValue
     /\ IsErrorObject
     /\ outcome.value.type = "bad params"
     /\ FieldNamedBy(outcome.value.error) = FirstOffendingField
     /\ remote = <<>>

\* ------------------------------------------------------------------- C3
\* C3: every entry point completes by returning a value, an error object
\* {error, type[, message]} when it failed; it never throws and never yields
\* a rejected promise.
C3_NoFaultEscapes ==
  Completed => /\ ReturnedValue
               /\ IsSuccess \/ IsErrorObject

\* ------------------------------------------------------------------- C4
\* C4: when the POST to the token endpoint fails, the OAuth callback returns
\* an error tagged with its provider's tag, the user store is never called
\* and no session token is signed.
C4_FailedExchangeShortCircuits ==
  (IsOauthEntry /\ EventsOf("post", "failed") # {})
  => /\ Completed
     /\ IsErrorObject
     /\ outcome.value.type = ProviderTag
     /\ \A i \in DOMAIN remote : remote[i].call # "getUser"
     /\ signed = <<>>

C4_Witness ==
  /\ entry = "azureOauthCallback"
  /\ Completed
  /\ EventsOf("post", "failed") # {}
  /\ "message" \in DOMAIN outcome.value

\* ------------------------------------------------------------------- C5
\* C5: a request that ends in a failure logs its error exactly once; a
\* request that succeeds logs no error.
C5_ErrorLoggedExactlyOnce ==
  Completed => Len(log) = (IF IsSuccess THEN 0 ELSE 1)

\* ------------------------------------------------------------------- C6
\* C6: an authChallenge request whose credentials the store accepts returns
\* a token minted in this request, signed with the process secret, with
\* claims {cId: undefined, uEmail: user.email, u_cId: user.customer_id} of
\* the record the store returned and an expiry 1,209,600 seconds after
\* issuance.
C6_FreshTokenOnPasswordLogin ==
  (entry = "authChallenge" /\ EventsOf("getUser", "ok") # {})
  => /\ Completed
     /\ IsSuccess
     /\ Len(signed) = 1
     /\ signed[1].secret = "process.env.JWT_SECRET"
     /\ \A i \in EventsOf("getUser", "ok") :
          LET user == remote[i].args[1]
              token == outcome.value.jwt.jwt
          IN /\ token.data = [cId |-> Undef, uEmail |-> user.email,
                              u_cId |-> user.customer_id]
             /\ signed[1].payload.data = token.data
             /\ token.secret = "process.env.JWT_SECRET"
             /\ token.iat = now
             /\ token.exp = token.iat + 1209600

C6_Witness ==
  /\ entry = "authChallenge"
  /\ Completed
  /\ IsSuccess
  /\ Truthy(Get(request.normalizedHeaders, "jwt"))
  /\ outcome.value.jwt # request.normalizedHeaders.jwt

\* ------------------------------------------------------------------- C7
\* C7: when the token endpoint responds successfully but the response has
\* no identity token, or one whose claims cannot be decoded, the OAuth
\* callback returns an error tagged with its provider's tag and the user
\* store is not queried.
C7_DecodeFailureIsProviderError ==
  (/\ IsOauthEntry
   /\ \E i \in EventsOf("post", "ok") :
        Decode(Get(remote[i].args[1].data, "id_token")) = Null)
  => /\ Completed
     /\ IsErrorObject
     /\ outcome.value.type = ProviderTag
     /\ \A i \in DOMAIN remote : remote[i].call # "getUser"

C9_RemoteCallChain ==
  /\ Cardinality(EventsOf("post", "issued")) <= 1
  /\ Cardinality(EventsOf("getUser", "issued")) <= 1
  /\ \A i \in DOMAIN remote :
       /\ remote[i].phase = "issued" /\ i < Len(remote)
            => /\ remote[i + 1].call = remote[i].call
               /\ remote[i + 1].phase \in {"ok", "failed"}
       /\ remote[i].phase = "failed" => i = Len(remote)
       /\ remote[i].phase \in {"ok", "failed"}
            => i > 1 /\ remote[i - 1] .call = remote[i].call
                     /\ remote[i - 1].phase = "issued"
       /\ remote[i].call = "getUser" /\ remote[i].phase = "issued"
            => IF IsOauthEntry
               THEN i = 3 /\ remote[2].call = "post" /\ remote[2].phase = "ok"
               ELSE i = 1
       /\ remote[i].call = "post" => IsOauthEntry
  /\ (pc = "exchange") <=> (remote # <<>> /\ remote[Len(remote)].call = "post"
                             /\ remote[Len(remote)].phase = "issued")
  /\ (pc = "lookup") <=> (remote # <<>> /\ remote[Len(remote)].call = "getUser"
                           /\ remote[Len(remote)].phase = "issued")

C9_Witness ==
  /\ Completed
  /\ Len(remote) = 4
  /\ remote[4].phase = "failed"

\* ------------------------------------------------------------------ C10
\* C10: a success result is returned only after the store lookup of the
\* same request succeeded, its user field is the record the store returned,
\* the key passed to the store is the lowercased userEmail, and jwt.sign is
\* never called in a request whose lookup failed or was never issued.
C10_NoSuccessWithoutResolvedUser ==
  /\ IsSuccess => /\ Completed
                  /\ \E i \in EventsOf("getUser", "ok") :
                       outcome.value.user = remote[i].args[1]
  /\ \A i \in EventsOf("getUser", "issued") :
       LET key == remote[i].args[1]
           userEmail == options.userEmail
       IN /\ key.t = "string"
          /\ Len(key.v) = Len(userEmail.v)
          /\ \A k \in 1..Len(key.v) :
               key.v[k] = (IF userEmail.v[k] = "A" THEN "a" ELSE userEmail.v[k])
  /\ signed # <<>> => EventsOf("getUser", "ok") # {}

C10_Witness ==
  /\ IsSuccess
  /\ \E i \in EventsOf("getUser", "issued") :
       remote[i].args[1] # options.userEmail

====
